---------------------------- MODULE Spec2Model ----------------------------
(***************************************************************************)
(* A model of protocol.py: the Bitcoin wire codec (Serializer) and the     *)
(* connection driver (Connection).                                         *)
(*                                                                         *)
(* A Python 2 str is a byte string: it is modelled as a sequence of        *)
(* integers 0..255, so "ping" is <<112, 105, 110, 103>>.  A StringIO       *)
(* reader is the pair (data, pos).  A raised exception is the name of its  *)
(* class in the field err of the result; err = "" means no exception.      *)
(* Integers of the model are TLC's: every value that is unpacked in the    *)
(* model is below 2^31.                                                    *)
(***************************************************************************)
EXTENDS Integers, Sequences, FiniteSets, TLC

(* ----------------------------- constants ------------------------------ *)

MAGIC_NUMBER == <<249, 190, 180, 217>>
MIN_PROTOCOL_VERSION == 70001
PROTOCOL_VERSION == 70002
SERVICES == 1
\* "/getaddr.bitnodes.io:0.1/"
USER_AGENT ==
    <<47, 103, 101, 116, 97, 100, 100, 114, 46, 98, 105, 116, 110, 111, 100,
      101, 115, 46, 105, 111, 58, 48, 46, 49, 47>>
HEIGHT == 336264
RELAY == 0
DEFAULT_PORT == 8333
SOCKET_BUFSIZE == 8192
HEADER_LEN == 24
ONION_PREFIX == <<253, 135, 216, 126, 235, 67>>

\* The exception classes derived from ProtocolError.
ProtocolError ==
    {"HeaderTooShortError", "InvalidMagicNumberError", "PayloadTooShortError",
     "InvalidPayloadChecksum", "IncompatibleClientError", "ReadError"}

\* The exception classes derived from ConnectionError.
ConnectionError == {"ConnectionError", "ProxyRequired", "RemoteHostClosedConnection"}

\* The command names of the protocol, as byte strings.
CmdVersion == <<118, 101, 114, 115, 105, 111, 110>>
CmdVerack == <<118, 101, 114, 97, 99, 107>>
CmdPing == <<112, 105, 110, 103>>
CmdPong == <<112, 111, 110, 103>>
CmdAddr == <<97, 100, 100, 114>>
CmdGetaddr == <<103, 101, 116, 97, 100, 100, 114>>
CmdInv == <<105, 110, 118>>
CmdGetdata == <<103, 101, 116, 100, 97, 116, 97>>
CmdTx == <<116, 120>>
CmdBlock == <<98, 108, 111, 99, 107>>

(* --------------------------- byte strings ----------------------------- *)

Min(a, b) == IF a < b THEN a ELSE b

\* LET x == e IN Body(x), with e evaluated once however often Body uses x.
Let(e, Body(_)) == CHOOSE r \in {Body(x) : x \in {e}} : TRUE

\* n copies of byte b: "\x00" * n
Rep(b, n) == [i \in 1..n |-> b]

\* s[::-1]
Reverse(s) == Let(s, LAMBDA t : [i \in 1..Len(t) |-> t[Len(t) + 1 - i]])

\* StringIO.read(n) at position p: at most n bytes, fewer at the end of the data.
Read(d, p, n) == SubSeq(d, p + 1, Min(p + n, Len(d)))

\* s.endswith(suffix)
EndsWith(s, suffix) ==
    /\ Len(s) >= Len(suffix)
    /\ SubSeq(s, Len(s) - Len(suffix) + 1, Len(s)) = suffix

\* c in s, for a single character c
Contains(s, c) == \E i \in 1..Len(s) : s[i] = c

\* str.strip("\x00"): leading and trailing NUL bytes removed.
Strip(s) ==
    Let(s, LAMBDA t :
    Let({i \in 1..Len(t) : t[i] # 0}, LAMBDA kept :
        IF kept = {} THEN <<>>
        ELSE SubSeq(t, CHOOSE i \in kept : \A j \in kept : i <= j,
                       CHOOSE i \in kept : \A j \in kept : j <= i)))

\* a < b for byte strings, as Python compares str: lexicographic.
RECURSIVE StrLess(_, _)
StrLess(a, b) ==
    IF b = <<>> THEN FALSE
    ELSE IF a = <<>> THEN TRUE
    ELSE IF a[1] # b[1] THEN a[1] < b[1]
    ELSE StrLess(Tail(a), Tail(b))

\* ''.join(list of byte strings)
RECURSIVE JoinFrom(_, _)
JoinFrom(ss, i) == IF i > Len(ss) THEN <<>> ELSE ss[i] \o JoinFrom(ss, i + 1)

Join(ss) == Let(ss, LAMBDA list : JoinFrom(list, 1))

(* ---------------------------- struct ---------------------------------- *)

\* struct.pack("<B|<H|<I|<Q", n): n in w little-endian bytes.
RECURSIVE PackLE(_, _)
PackLE(n, w) == IF w = 0 THEN <<>> ELSE <<n % 256>> \o PackLE(n \div 256, w - 1)

\* struct.pack(">H", n)
PackBE(n, w) == Reverse(PackLE(n, w))

\* The unsigned value of little-endian bytes.
RECURSIVE UnsignedLE(_)
UnsignedLE(s) == IF s = <<>> THEN 0 ELSE s[1] + 256 * UnsignedLE(Tail(s))

\* The two's complement value of little-endian bytes ("<i", "<q").
SignedLE(s) ==
    IF s[Len(s)] >= 128
    THEN -UnsignedLE([i \in 1..Len(s) |-> 255 - s[i]]) - 1
    ELSE UnsignedLE(s)

\* The value struct.unpack(fmt, s)[0] of a string of the format's size.
StructValue(fmt, s) ==
    CASE fmt = "<i" -> SignedLE(s)
      [] fmt = "<q" -> SignedLE(s)
      [] fmt = ">H" -> UnsignedLE(Reverse(s))
      [] fmt = "<?" -> s[1] # 0
      [] OTHER -> UnsignedLE(s)

StructSize(fmt) ==
    CASE fmt = "<B" -> 1
      [] fmt = "<?" -> 1
      [] fmt = "<H" -> 2
      [] fmt = ">H" -> 2
      [] fmt = "<I" -> 4
      [] fmt = "<i" -> 4
      [] fmt = "<Q" -> 8
      [] fmt = "<q" -> 8

\* struct.unpack(fmt, data.read(size))[0] on the reader (d, p): struct.error when
\* the string read is shorter than the format.
struct_unpack(fmt, d, p) ==
    Let(Read(d, p, StructSize(fmt)), LAMBDA s :
        IF Len(s) # StructSize(fmt)
        THEN [err |-> "struct.error", v |-> 0, pos |-> p + Len(s)]
        ELSE [err |-> "", v |-> StructValue(fmt, s), pos |-> p + Len(s)])

\* unpack(fmt, data.read(size)): struct.error is turned into ReadError.
unpack(fmt, d, p) ==
    Let(struct_unpack(fmt, d, p), LAMBDA r :
        IF r.err = "struct.error" THEN [r EXCEPT !.err = "ReadError"] ELSE r)

(* ----------------------------- digests -------------------------------- *)

\* hashlib.sha256(data).digest().  SHA-256 itself is not computed: its place is
\* taken by a fixed deterministic digest of 8 bytes (a weighted sum of the bytes
\* by position, and the length), which like SHA-256 is a function of the data
\* alone.  WeightedSum(s, lo, hi) is the sum over the positions lo..hi.
RECURSIVE WeightedSum(_, _, _)
WeightedSum(s, lo, hi) ==
    IF lo > hi THEN 0
    ELSE IF lo = hi THEN (((lo * 131 + 7) % 1021) + 1) * (s[lo] + 1)
    ELSE Let((lo + hi) \div 2, LAMBDA mid :
         (WeightedSum(s, lo, mid) + WeightedSum(s, mid + 1, hi)) % 16777213)

sha256(data) ==
    Let(data, LAMBDA s :
    Let((WeightedSum(s, 1, Len(s)) + 5381) % 16777213, LAMBDA h :
        PackLE(h, 4) \o PackLE((h * 7 + Len(s)) % 16777213, 4)))

\* binascii.hexlify(s): two hexadecimal digits (0..15) per byte.
hexlify(s) ==
    Let(s, LAMBDA t :
        [i \in 1..(2 * Len(t)) |->
            IF i % 2 = 1 THEN t[(i + 1) \div 2] \div 16 ELSE t[i \div 2] % 16])

\* binascii.unhexlify(h)
unhexlify(h) ==
    Let(h, LAMBDA t : [i \in 1..(Len(t) \div 2) |-> 16 * t[2 * i - 1] + t[2 * i]])


(* ------------------- library conversions of addresses ------------------ *)

\* s.split(c)
RECURSIVE Split(_, _, _)
Split(s, c, cur) ==
    IF s = <<>> THEN <<cur>>
    ELSE IF s[1] = c THEN <<cur>> \o Split(Tail(s), c, <<>>)
    ELSE Split(Tail(s), c, Append(cur, s[1]))

\* a in b for strings: a occurs in b as a substring.
IsSubstring(a, b) ==
    \E i \in 0..(Len(b) - Len(a)) : SubSeq(b, i + 1, i + Len(a)) = a

\* The value of a decimal numeral.
RECURSIVE DecValue(_, _)
DecValue(s, acc) ==
    IF s = <<>> THEN acc ELSE DecValue(Tail(s), 10 * acc + (s[1] - 48))

\* The decimal numeral of n >= 0.
RECURSIVE DecText(_)
DecText(n) ==
    IF n < 10 THEN <<48 + n>> ELSE Append(DecText(n \div 10), 48 + (n % 10))

HexDigitValue(c) ==
    IF c >= 97 THEN c - 87 ELSE IF c >= 65 THEN c - 55 ELSE c - 48

RECURSIVE HexValue(_, _)
HexValue(s, acc) ==
    IF s = <<>> THEN acc ELSE HexValue(Tail(s), 16 * acc + HexDigitValue(s[1]))

HexDigitChar(v) == IF v < 10 THEN 48 + v ELSE 87 + v

\* The lowercase hexadecimal numeral of n >= 0, without leading zeros.
RECURSIVE HexText(_)
HexText(n) ==
    IF n < 16 THEN <<HexDigitChar(n)>>
    ELSE Append(HexText(n \div 16), HexDigitChar(n % 16))

\* socket.inet_pton(socket.AF_INET, text), for a dotted quad.
inet_pton4(text) ==
    Let(Split(text, 46, <<>>), LAMBDA parts :
        [i \in 1..4 |-> DecValue(parts[i], 0)])

\* socket.inet_ntop(socket.AF_INET, b)
inet_ntop4(b) ==
    DecText(b[1]) \o <<46>> \o DecText(b[2]) \o <<46>> \o DecText(b[3])
        \o <<46>> \o DecText(b[4])

\* The 16-bit groups of an IPv6 text without "::".
Groups6(text) == IF text = <<>> THEN <<>> ELSE Split(text, 58, <<>>)

\* socket.inet_pton(socket.AF_INET6, text), for hexadecimal groups with at most
\* one "::".
inet_pton6(text) ==
    LET cuts == {i \in 1..(Len(text) - 1) : text[i] = 58 /\ text[i + 1] = 58}
        words ==
            IF cuts = {} THEN Groups6(text)
            ELSE Let(CHOOSE c \in cuts : TRUE, LAMBDA i :
                 Let(Groups6(SubSeq(text, 1, i - 1)), LAMBDA l :
                 Let(Groups6(SubSeq(text, i + 2, Len(text))), LAMBDA r :
                     l \o Rep(<<48>>, 8 - Len(l) - Len(r)) \o r)))
    IN  Let(words, LAMBDA w :
        Let([i \in 1..8 |-> PackBE(HexValue(w[i], 0), 2)], LAMBDA packed :
            Join(packed)))

\* The longest run of zero words (at least two long, the first of the longest):
\* <<base, len>> with base counted from 0, <<-1, 0>> when there is none.
BestZeroRun(words) ==
    LET RunAt(i) ==
            IF words[i] # 0 \/ (i > 1 /\ words[i - 1] = 0) THEN 0
            ELSE CHOOSE n \in 1..(9 - i) :
                    /\ \A j \in i..(i + n - 1) : words[j] = 0
                    /\ (i + n = 9 \/ words[i + n] # 0)
        longest == CHOOSE n \in {RunAt(i) : i \in 1..8} :
                        \A i \in 1..8 : RunAt(i) <= n
    IN  Let(longest, LAMBDA n :
            IF n < 2 THEN <<-1, 0>>
            ELSE <<(CHOOSE i \in 1..8 :
                       RunAt(i) = n /\ \A j \in 1..(i - 1) : RunAt(j) < n) - 1,
                   n>>)

\* socket.inet_ntop(socket.AF_INET6, b): the C library's text, with the longest
\* zero run as "::" and an encapsulated IPv4 address as a dotted quad.
RECURSIVE Ntop6From(_, _, _, _)
Ntop6From(b, words, best, i) ==
    IF i = 8 THEN <<>>
    ELSE IF best[1] # -1 /\ i >= best[1] /\ i < best[1] + best[2]
    THEN (IF i = best[1] THEN <<58>> ELSE <<>>) \o Ntop6From(b, words, best, i + 1)
    ELSE (IF i # 0 THEN <<58>> ELSE <<>>) \o
         (IF i = 6 /\ best[1] = 0
               /\ (best[2] = 6 \/ (best[2] = 5 /\ words[6] = 65535))
          THEN inet_ntop4(SubSeq(b, 13, 16))
          ELSE HexText(words[i + 1]) \o Ntop6From(b, words, best, i + 1))

inet_ntop6(b) ==
    Let([i \in 1..8 |-> 256 * b[2 * i - 1] + b[2 * i]], LAMBDA words :
    Let(BestZeroRun(words), LAMBDA best :
    Let(Ntop6From(b, words, best, 0), LAMBDA text :
        IF best[1] # -1 /\ best[1] + best[2] = 8 THEN Append(text, 58) ELSE text)))

\* The bits of a byte string, most significant first.
RECURSIVE BitsOf(_, _)
BitsOf(v, w) == IF w = 0 THEN <<>> ELSE Append(BitsOf(v \div 2, w - 1), v % 2)

RECURSIVE BitsValue(_, _)
BitsValue(bits, acc) ==
    IF bits = <<>> THEN acc ELSE BitsValue(Tail(bits), 2 * acc + bits[1])

Base32Value(c) ==
    IF c >= 97 THEN c - 97 ELSE IF c >= 65 THEN c - 65 ELSE c - 24

Base32Char(v) == IF v < 26 THEN 65 + v ELSE 24 + v

\* str.lower()
Lower(s) ==
    Let(s, LAMBDA t :
        [i \in 1..Len(t) |-> IF t[i] >= 65 /\ t[i] <= 90 THEN t[i] + 32 ELSE t[i]])

\* base64.b32decode(s, True), for a string of 8k characters without padding.
b32decode(s) ==
    Let([i \in 1..Len(s) |-> BitsOf(Base32Value(s[i]), 5)], LAMBDA groups :
    Let(Join(groups), LAMBDA bits :
        [i \in 1..(Len(bits) \div 8) |->
            BitsValue(SubSeq(bits, 8 * i - 7, 8 * i), 0)]))

\* base64.b32encode(b), for a string of 5k bytes (no padding).
b32encode(b) ==
    Let([i \in 1..Len(b) |-> BitsOf(b[i], 8)], LAMBDA groups :
    Let(Join(groups), LAMBDA bits :
        [i \in 1..(Len(bits) \div 5) |->
            Base32Char(BitsValue(SubSeq(bits, 5 * i - 4, 5 * i), 0))]))

DotOnion == <<46, 111, 110, 105, 111, 110>>

(* ------------------------ primitive encoders --------------------------- *)

serialize_int(length) ==
    IF length < 253 THEN <<length>>
    ELSE IF length <= 65535 THEN <<253>> \o PackLE(length, 2)
    ELSE <<254>> \o PackLE(length, 4)

serialize_string(data) == serialize_int(Len(data)) \o data

\* addr is the tuple <<services, ip, port>> or <<timestamp, services, ip, port>>.
serialize_network_address(addr) ==
    LET has_timestamp == Len(addr) = 4
        services == IF has_timestamp THEN addr[2] ELSE addr[1]
        ip_address == IF has_timestamp THEN addr[3] ELSE addr[2]
        port == IF has_timestamp THEN addr[4] ELSE addr[3]
    IN  (IF has_timestamp THEN PackLE(addr[1], 4) ELSE <<>>)
        \o PackLE(services, 8)
        \o (IF EndsWith(ip_address, DotOnion)
            THEN ONION_PREFIX
                 \o b32decode(SubSeq(ip_address, 1, Len(ip_address) - 6))
            ELSE IF Contains(ip_address, 46)
            THEN Rep(0, 10) \o Rep(255, 2) \o inet_pton4(ip_address)
            ELSE inet_pton6(ip_address))
        \o PackBE(port, 2)

\* A variant of serialize_inventory that writes the hash as its digits give it.
serialize_inventory_unreversed(item) == PackLE(item[1], 4) \o unhexlify(item[2])

\* item is the tuple <<inv_type, inv_hash>>, the hash in hexadecimal digits.
serialize_inventory(item) == PackLE(item[1], 4) \o Reverse(unhexlify(item[2]))

serialize_tx_in(tx_in) ==
    Reverse(unhexlify(tx_in.prev_out_hash))
        \o PackLE(tx_in.prev_out_index, 4)
        \o serialize_int(tx_in.script_length)
        \o tx_in.script
        \o PackLE(tx_in.sequence, 4)

serialize_tx_out(tx_out) ==
    PackLE(tx_out.value, 8) \o serialize_int(tx_out.script_length) \o tx_out.script

serialize_tx_payload(tx) ==
    PackLE(tx.version, 4)
        \o serialize_int(tx.tx_in_count)
        \o Join([i \in 1..Len(tx.tx_in) |-> serialize_tx_in(tx.tx_in[i])])
        \o serialize_int(tx.tx_out_count)
        \o Join([i \in 1..Len(tx.tx_out) |-> serialize_tx_out(tx.tx_out[i])])
        \o PackLE(tx.lock_time, 4)

serialize_ping_payload(nonce) == PackLE(nonce, 8)

serialize_addr_payload(addr_list) ==
    serialize_int(Len(addr_list))
        \o Join([i \in 1..Len(addr_list) |-> serialize_network_address(addr_list[i])])

serialize_inv_payload(inventory) ==
    serialize_int(Len(inventory))
        \o Join([i \in 1..Len(inventory) |-> serialize_inventory(inventory[i])])

\* self is the Serializer's configuration; now is int(time.time()) and nonce is
\* random.getrandbits(64), both chosen by the environment.
serialize_version_payload(self, to_addr, from_addr, now, nonce) ==
    PackLE(self.protocol_version, 4)
        \o PackLE(self.from_services, 8)
        \o PackLE(now, 8)
        \o serialize_network_address(to_addr)
        \o serialize_network_address(from_addr)
        \o PackLE(nonce, 8)
        \o serialize_string(self.user_agent)
        \o PackLE(self.height, 4)
        \o PackLE(self.relay, 1)

(* ------------------------ primitive decoders --------------------------- *)
(* A decoder reads from the reader (d, p) and returns [err, v, pos]: the  *)
(* exception raised ("" for none), the value and the reader's position.   *)

\* The result of a decoder that raised: the exception of the failed step r.
Raised(r) == [err |-> r.err, v |-> <<>>, pos |-> r.pos]

deserialize_int(d, p) ==
    Let(unpack("<B", d, p), LAMBDA length :
        IF length.err # "" THEN length
        ELSE IF length.v = 253 THEN unpack("<H", d, length.pos)
        ELSE IF length.v = 254 THEN unpack("<I", d, length.pos)
        ELSE IF length.v = 255 THEN unpack("<Q", d, length.pos)
        ELSE length)

deserialize_string(d, p) ==
    Let(deserialize_int(d, p), LAMBDA length :
        IF length.err # "" THEN Raised(length)
        ELSE Let(Read(d, length.pos, length.v), LAMBDA s :
                 [err |-> "", v |-> s, pos |-> length.pos + Len(s)]))

\* The texts of the 16 address bytes: ipv4, ipv6 and onion, two of them empty.
AddressTexts(b) ==
    IF SubSeq(b, 1, 6) = ONION_PREFIX
    THEN [ipv4 |-> <<>>, ipv6 |-> <<>>,
          onion |-> Lower(b32encode(SubSeq(b, 7, 16))) \o DotOnion]
    ELSE Let(inet_ntop6(b), LAMBDA ipv6 :
         Let(inet_ntop4(SubSeq(b, 13, 16)), LAMBDA ipv4 :
             IF IsSubstring(ipv4, ipv6)
             THEN [ipv4 |-> ipv4, ipv6 |-> <<>>, onion |-> <<>>]
             ELSE [ipv4 |-> <<>>, ipv6 |-> ipv6, onion |-> <<>>]))

\* timestamp = None is the value -1.
deserialize_network_address(d, p, has_timestamp) ==
    Let(IF has_timestamp THEN unpack("<I", d, p)
        ELSE [err |-> "", v |-> -1, pos |-> p], LAMBDA timestamp :
    IF timestamp.err # "" THEN Raised(timestamp)
    ELSE
    Let(unpack("<Q", d, timestamp.pos), LAMBDA services :
    IF services.err # "" THEN Raised(services)
    ELSE
    Let(Read(d, services.pos, 12), LAMBDA ipv6 :
    Let(Read(d, services.pos + Len(ipv6), 4), LAMBDA ipv4 :
    Let(unpack(">H", d, services.pos + Len(ipv6) + Len(ipv4)), LAMBDA port :
    IF port.err # "" THEN Raised(port)
    ELSE
    Let(AddressTexts(ipv6 \o ipv4), LAMBDA texts :
    [err |-> "",
     v |-> [timestamp |-> timestamp.v, services |-> services.v,
            ipv4 |-> texts.ipv4, ipv6 |-> texts.ipv6, onion |-> texts.onion,
            port |-> port.v],
     pos |-> port.pos]))))))

deserialize_inventory(d, p) ==
    Let(struct_unpack("<I", d, p), LAMBDA inv_type :
    IF inv_type.err # "" THEN Raised(inv_type)
    ELSE
    Let(Reverse(Read(d, inv_type.pos, 32)), LAMBDA inv_hash :
    [err |-> "",
     v |-> [type |-> inv_type.v, hash |-> hexlify(inv_hash)],
     pos |-> inv_type.pos + Len(inv_hash)]))

deserialize_tx_in(d, p) ==
    Let(Reverse(Read(d, p, 32)), LAMBDA prev_out_hash :
    Let(struct_unpack("<I", d, p + Len(prev_out_hash)), LAMBDA prev_out_index :
    IF prev_out_index.err # "" THEN Raised(prev_out_index)
    ELSE
    Let(deserialize_int(d, prev_out_index.pos), LAMBDA script_length :
    IF script_length.err # "" THEN Raised(script_length)
    ELSE
    Let(Read(d, script_length.pos, script_length.v), LAMBDA script :
    Let(struct_unpack("<I", d, script_length.pos + Len(script)), LAMBDA sequence :
    IF sequence.err # "" THEN Raised(sequence)
    ELSE
    [err |-> "",
     v |-> [prev_out_hash |-> hexlify(prev_out_hash),
            prev_out_index |-> prev_out_index.v,
            script_length |-> script_length.v,
            script |-> script,
            sequence |-> sequence.v],
     pos |-> sequence.pos])))))

deserialize_tx_out(d, p) ==
    Let(struct_unpack("<q", d, p), LAMBDA value :
    IF value.err # "" THEN Raised(value)
    ELSE
    Let(deserialize_int(d, value.pos), LAMBDA script_length :
    IF script_length.err # "" THEN Raised(script_length)
    ELSE
    Let(Read(d, script_length.pos, script_length.v), LAMBDA script :
    [err |-> "",
     v |-> [value |-> value.v, script_length |-> script_length.v,
            script |-> script],
     pos |-> script_length.pos + Len(script)])))

\* for _ in xrange(n): item = decode(data); acc.append(item) -- one operator for
\* each item decoder; v is the list read so far.
RECURSIVE AddrLoop(_, _, _, _)
AddrLoop(d, p, n, acc) ==
    IF n <= 0 THEN [err |-> "", v |-> acc, pos |-> p]
    ELSE Let(deserialize_network_address(d, p, TRUE), LAMBDA item :
         IF item.err # "" THEN Raised(item)
         ELSE Let(Append(acc, item.v), LAMBDA list :
                  AddrLoop(d, item.pos, n - 1, list)))

RECURSIVE InventoryLoop(_, _, _, _)
InventoryLoop(d, p, n, acc) ==
    IF n <= 0 THEN [err |-> "", v |-> acc, pos |-> p]
    ELSE Let(deserialize_inventory(d, p), LAMBDA item :
         IF item.err # "" THEN Raised(item)
         ELSE Let(Append(acc, item.v), LAMBDA list :
                  InventoryLoop(d, item.pos, n - 1, list)))

RECURSIVE TxInLoop(_, _, _, _)
TxInLoop(d, p, n, acc) ==
    IF n <= 0 THEN [err |-> "", v |-> acc, pos |-> p]
    ELSE Let(deserialize_tx_in(d, p), LAMBDA item :
         IF item.err # "" THEN Raised(item)
         ELSE Let(Append(acc, item.v), LAMBDA list :
                  TxInLoop(d, item.pos, n - 1, list)))

RECURSIVE TxOutLoop(_, _, _, _)
TxOutLoop(d, p, n, acc) ==
    IF n <= 0 THEN [err |-> "", v |-> acc, pos |-> p]
    ELSE Let(deserialize_tx_out(d, p), LAMBDA item :
         IF item.err # "" THEN Raised(item)
         ELSE Let(Append(acc, item.v), LAMBDA list :
                  TxOutLoop(d, item.pos, n - 1, list)))

(* ------------------------- payload decoders ---------------------------- *)

\* A variant of IncompatibleClient that lets one version more pass.
IncompatibleClientBelow(version) == version < MIN_PROTOCOL_VERSION - 1

\* if msg['version'] < MIN_PROTOCOL_VERSION: raise IncompatibleClientError
IncompatibleClient(version) == version < MIN_PROTOCOL_VERSION

deserialize_version_payload(d) ==
    Let(struct_unpack("<i", d, 0), LAMBDA version :
    IF version.err # "" THEN Raised(version)
    ELSE IF IncompatibleClient(version.v)
    THEN [err |-> "IncompatibleClientError", v |-> <<>>, pos |-> version.pos]
    ELSE
    Let(unpack("<Q", d, version.pos), LAMBDA services :
    IF services.err # "" THEN Raised(services)
    ELSE
    Let(unpack("<q", d, services.pos), LAMBDA timestamp :
    IF timestamp.err # "" THEN Raised(timestamp)
    ELSE
    Let(deserialize_network_address(d, timestamp.pos, FALSE), LAMBDA to_addr :
    IF to_addr.err # "" THEN Raised(to_addr)
    ELSE
    Let(deserialize_network_address(d, to_addr.pos, FALSE), LAMBDA from_addr :
    IF from_addr.err # "" THEN Raised(from_addr)
    ELSE
    Let(unpack("<Q", d, from_addr.pos), LAMBDA nonce :
    IF nonce.err # "" THEN Raised(nonce)
    ELSE
    Let(deserialize_string(d, nonce.pos), LAMBDA user_agent :
    IF user_agent.err # "" THEN Raised(user_agent)
    ELSE
    Let(unpack("<i", d, user_agent.pos), LAMBDA height :
    IF height.err # "" THEN Raised(height)
    ELSE
    Let(struct_unpack("<?", d, height.pos), LAMBDA relay :
    [err |-> "",
     v |-> [version |-> version.v, services |-> services.v,
            timestamp |-> timestamp.v, to_addr |-> to_addr.v,
            from_addr |-> from_addr.v, nonce |-> nonce.v,
            user_agent |-> user_agent.v, height |-> height.v,
            relay |-> IF relay.err # "" THEN FALSE ELSE relay.v],
     pos |-> relay.pos])))))))))

deserialize_ping_payload(d) ==
    Let(unpack("<Q", d, 0), LAMBDA nonce :
        IF nonce.err # "" THEN Raised(nonce)
        ELSE [err |-> "", v |-> [nonce |-> nonce.v], pos |-> nonce.pos])

deserialize_addr_payload(d) ==
    Let(deserialize_int(d, 0), LAMBDA count :
    IF count.err # "" THEN Raised(count)
    ELSE
    Let(AddrLoop(d, count.pos, count.v, <<>>), LAMBDA addr_list :
    IF addr_list.err # "" THEN Raised(addr_list)
    ELSE [err |-> "",
          v |-> [count |-> count.v, addr_list |-> addr_list.v],
          pos |-> addr_list.pos]))

\* now_ms is int(time.time() * 1000), read from the clock.
deserialize_inv_payload(d, now_ms) ==
    Let(deserialize_int(d, 0), LAMBDA count :
    IF count.err # "" THEN Raised(count)
    ELSE
    Let(InventoryLoop(d, count.pos, count.v, <<>>), LAMBDA inventory :
    IF inventory.err # "" THEN Raised(inventory)
    ELSE [err |-> "",
          v |-> [timestamp |-> now_ms, count |-> count.v,
                 inventory |-> inventory.v],
          pos |-> inventory.pos]))

\* data is a str (p = 0) or the reader of the block being decoded.
deserialize_tx_payload(d, p) ==
    Let(struct_unpack("<I", d, p), LAMBDA version :
    IF version.err # "" THEN Raised(version)
    ELSE
    Let(deserialize_int(d, version.pos), LAMBDA tx_in_count :
    IF tx_in_count.err # "" THEN Raised(tx_in_count)
    ELSE
    Let(TxInLoop(d, tx_in_count.pos, tx_in_count.v, <<>>), LAMBDA tx_in :
    IF tx_in.err # "" THEN Raised(tx_in)
    ELSE
    Let(deserialize_int(d, tx_in.pos), LAMBDA tx_out_count :
    IF tx_out_count.err # "" THEN Raised(tx_out_count)
    ELSE
    Let(TxOutLoop(d, tx_out_count.pos, tx_out_count.v, <<>>), LAMBDA tx_out :
    IF tx_out.err # "" THEN Raised(tx_out)
    ELSE
    Let(struct_unpack("<I", d, tx_out.pos), LAMBDA lock_time :
    IF lock_time.err # "" THEN Raised(lock_time)
    ELSE
    Let([version |-> version.v,
         tx_in_count |-> tx_in_count.v, tx_in |-> tx_in.v,
         tx_out_count |-> tx_out_count.v, tx_out |-> tx_out.v,
         lock_time |-> lock_time.v], LAMBDA msg :
    Let(serialize_tx_payload(msg), LAMBDA payload :
    [err |-> "",
     v |-> [tx_hash |-> hexlify(Reverse(sha256(sha256(payload))))] @@ msg,
     pos |-> lock_time.pos]))))))))

RECURSIVE TxLoop(_, _, _, _)
TxLoop(d, p, n, acc) ==
    IF n <= 0 THEN [err |-> "", v |-> acc, pos |-> p]
    ELSE Let(deserialize_tx_payload(d, p), LAMBDA item :
         IF item.err # "" THEN Raised(item)
         ELSE Let(Append(acc, item.v), LAMBDA list :
                  TxLoop(d, item.pos, n - 1, list)))

deserialize_block_payload(d) ==
    Let(hexlify(Reverse(sha256(sha256(SubSeq(d, 1, Min(80, Len(d))))))),
        LAMBDA block_hash :
    Let(struct_unpack("<I", d, 0), LAMBDA version :
    IF version.err # "" THEN Raised(version)
    ELSE
    Let(Reverse(Read(d, version.pos, 32)), LAMBDA prev_block_hash :
    Let(Reverse(Read(d, version.pos + Len(prev_block_hash), 32)),
        LAMBDA merkle_root :
    Let(struct_unpack("<I", d,
                      version.pos + Len(prev_block_hash) + Len(merkle_root)),
        LAMBDA timestamp :
    IF timestamp.err # "" THEN Raised(timestamp)
    ELSE
    Let(struct_unpack("<I", d, timestamp.pos), LAMBDA bits :
    IF bits.err # "" THEN Raised(bits)
    ELSE
    Let(struct_unpack("<I", d, bits.pos), LAMBDA nonce :
    IF nonce.err # "" THEN Raised(nonce)
    ELSE
    Let(deserialize_int(d, nonce.pos), LAMBDA tx_count :
    IF tx_count.err # "" THEN Raised(tx_count)
    ELSE
    Let(TxLoop(d, tx_count.pos, tx_count.v, <<>>), LAMBDA tx :
    IF tx.err # "" THEN Raised(tx)
    ELSE
    [err |-> "",
     v |-> [block_hash |-> block_hash, version |-> version.v,
            prev_block_hash |-> hexlify(prev_block_hash),
            merkle_root |-> hexlify(merkle_root),
            timestamp |-> timestamp.v, bits |-> bits.v, nonce |-> nonce.v,
            tx_count |-> tx_count.v, tx |-> tx.v],
     pos |-> tx.pos])))))))))

(* --------------------------- message codec ----------------------------- *)

\* kwargs is the record of serialize_msg's keyword arguments; self is the
\* Serializer's configuration; now and nonce are the clock's seconds and the
\* random bits a version payload takes.
serialize_msg(self, kwargs, now, nonce) ==
    Let(kwargs.command, LAMBDA command :
    Let(IF command = CmdVersion
        THEN serialize_version_payload(
                 self,
                 <<self.to_services>> \o kwargs.to_addr,
                 <<self.from_services>> \o kwargs.from_addr,
                 now, nonce)
        ELSE IF command = CmdPing \/ command = CmdPong
        THEN serialize_ping_payload(kwargs.nonce)
        ELSE IF command = CmdAddr
        THEN serialize_addr_payload(kwargs.addr_list)
        ELSE IF command = CmdInv \/ command = CmdGetdata
        THEN serialize_inv_payload(kwargs.inventory)
        ELSE <<>>, LAMBDA payload :
        MAGIC_NUMBER
        \o command \o Rep(0, 12 - Len(command))
        \o PackLE(Len(payload), 4)
        \o SubSeq(sha256(sha256(payload)), 1, 4)
        \o payload))

\* [err, v]: InvalidMagicNumberError, or the header's fields.
deserialize_header(data) ==
    Let(Read(data, 0, 4), LAMBDA magic_number :
    IF magic_number # MAGIC_NUMBER
    THEN [err |-> "InvalidMagicNumberError", v |-> <<>>]
    ELSE [err |-> "",
          v |-> [magic_number |-> magic_number,
                 command |-> Strip(Read(data, 4, 12)),
                 length |-> UnsignedLE(Read(data, 16, 4)),
                 checksum |-> Read(data, 20, 4)]])

\* A variant of Failed that clears self.required_len whenever it raises.
FailedCleared(e, rl) ==
    [err |-> e, msg |-> <<>>, rest |-> <<>>, required_len |-> 0]

\* The result of deserialize_msg when it raises e; rl is self.required_len.
Failed(e, rl) == [err |-> e, msg |-> <<>>, rest |-> <<>>, required_len |-> rl]

\* required_len is self.required_len at the call.  The result is [err, msg,
\* rest, required_len]: the exception raised ("" for none), and on return the
\* message and the unread bytes; required_len is self.required_len afterwards.
deserialize_msg(required_len, data, now_ms) ==
    Let(Len(data), LAMBDA data_len :
    IF data_len < HEADER_LEN THEN Failed("HeaderTooShortError", required_len)
    ELSE
    Let(deserialize_header(Read(data, 0, HEADER_LEN)), LAMBDA header :
    IF header.err # "" THEN Failed(header.err, required_len)
    ELSE
    Let(header.v, LAMBDA msg :
    IF (data_len - HEADER_LEN) < msg.length
    THEN Failed("PayloadTooShortError", HEADER_LEN + msg.length)
    ELSE
    Let(Read(data, HEADER_LEN, msg.length), LAMBDA payload :
    Let(SubSeq(sha256(sha256(payload)), 1, 4), LAMBDA computed_checksum :
    IF computed_checksum # msg.checksum
    THEN Failed("InvalidPayloadChecksum", required_len)
    ELSE
    Let(IF msg.command = CmdVersion THEN deserialize_version_payload(payload)
        ELSE IF msg.command = CmdPing \/ msg.command = CmdPong
        THEN deserialize_ping_payload(payload)
        ELSE IF msg.command = CmdAddr THEN deserialize_addr_payload(payload)
        ELSE IF msg.command = CmdInv
        THEN deserialize_inv_payload(payload, now_ms)
        ELSE IF msg.command = CmdTx THEN deserialize_tx_payload(payload, 0)
        ELSE IF msg.command = CmdBlock THEN deserialize_block_payload(payload)
        ELSE [err |-> "", v |-> msg, pos |-> 0], LAMBDA typed :
    IF typed.err # "" THEN Failed(typed.err, required_len)
    ELSE [err |-> "",
          msg |-> typed.v @@ msg,
          rest |-> Read(data, HEADER_LEN + msg.length, data_len),
          required_len |-> required_len]))))))

(* ------------------------- peers and targets --------------------------- *)

\* Serializer.__init__ without configuration.
DefaultConfig ==
    [protocol_version |-> PROTOCOL_VERSION, from_services |-> SERVICES,
     user_agent |-> USER_AGENT, height |-> HEIGHT, relay |-> RELAY,
     to_services |-> SERVICES]

\* The clock of the model: time.time() in milliseconds.
TimeMs == {86400123}

\* The values random.getrandbits(64) takes in the model.
RandomBits == {11}

\* Texts of hosts: "1.2.3.4", "0.0.0.0", "127.0.0.1", "2001:db8::1" and
\* "abcdefghij234567.onion".
HostV4 == <<49, 46, 50, 46, 51, 46, 52>>
HostAny == <<48, 46, 48, 46, 48, 46, 48>>
HostLocal == <<49, 50, 55, 46, 48, 46, 48, 46, 49>>
HostV6 == <<50, 48, 48, 49, 58, 100, 98, 56, 58, 58, 49>>
HostOnion ==
    <<97, 98, 99, 100, 101, 102, 103, 104, 105, 106, 50, 51, 52, 53, 54, 55>>
        \o DotOnion

\* proxy = None
NoProxy == <<>>
TorProxy == <<HostLocal, 9050>>

\* A peer speaking the protocol with its own configuration: its user agent is
\* "/Satoshi:0.10/", 14 characters, so that its version frame has 124 bytes.
PeerAgent == <<47, 83, 97, 116, 111, 115, 104, 105, 58, 48, 46, 49, 48, 47>>

PeerConfig(version) == [DefaultConfig EXCEPT !.protocol_version = version,
                                             !.user_agent = PeerAgent]

\* A frame as the packet structure lays it out, for any command and payload.
Frame(command, payload) ==
    Let(payload, LAMBDA p :
        MAGIC_NUMBER \o command \o Rep(0, 12 - Len(command))
            \o PackLE(Len(p), 4) \o SubSeq(sha256(sha256(p)), 1, 4) \o p)

\* Frames a peer sends.
FVersion(version) ==
    serialize_msg(PeerConfig(version),
                  [command |-> CmdVersion, to_addr |-> <<HostAny, 0>>,
                   from_addr |-> <<HostAny, 0>>], 86400, 3)
FVerack == serialize_msg(DefaultConfig, [command |-> CmdVerack], 0, 0)
FPing(n) == serialize_msg(DefaultConfig, [command |-> CmdPing, nonce |-> n], 0, 0)
FPong(n) == serialize_msg(DefaultConfig, [command |-> CmdPong, nonce |-> n], 0, 0)
FAddr ==
    serialize_msg(DefaultConfig,
                  [command |-> CmdAddr,
                   addr_list |-> << <<86400, 1, HostV4, 8333>> >>], 0, 0)
TxSample ==
    [version |-> 1, tx_in_count |-> 1,
     tx_in |-> << [prev_out_hash |-> hexlify(Rep(7, 32)), prev_out_index |-> 0,
                   script_length |-> 2, script |-> <<81, 82>>,
                   sequence |-> 9] >>,
     tx_out_count |-> 1,
     tx_out |-> << [value |-> 5000, script_length |-> 1, script |-> <<81>>] >>,
     lock_time |-> 0]
FTx == Frame(CmdTx, serialize_tx_payload(TxSample))
\* The payload of a block of one transaction: the 80 bytes of its header, the
\* count and the transaction.
BlockPayload ==
    PackLE(2, 4) \o Rep(1, 32) \o Rep(2, 32) \o PackLE(86400, 4)
        \o PackLE(486604799, 4) \o PackLE(42, 4)
        \o serialize_int(1) \o serialize_tx_payload(TxSample)
InvPayload == serialize_inv_payload(<< <<1, hexlify(Rep(7, 32))>> >>)
\* A frame whose checksum is not its payload's.
BadChecksum(frame) == [frame EXCEPT ![21] = (frame[21] + 1) % 256]
\* A frame whose first byte is not the magic number's.
BadMagic(frame) == [frame EXCEPT ![1] = 0]

\* commands=None
None == [list |-> <<>>, none |-> TRUE]
List(l) == [list |-> l, none |-> FALSE]

\* The read operations a caller makes, as StartCall records them.
GetMessages(commands) == [commands |-> commands, name |-> "get_messages"]
Handshake == [commands |-> List(<<CmdVersion, CmdVerack>>), name |-> "handshake"]
Getaddr == [commands |-> List(<<CmdAddr>>), name |-> "getaddr"]
Getdata == [commands |-> List(<<CmdTx, CmdBlock>>), name |-> "getdata"]

\* Connection(to_addr, proxy=proxy), the bytes its peer sends and the read
\* operations its caller makes, in order.
Scenario(addr, prx, stream, operations) ==
    [to_addr |-> addr, proxy |-> prx, wire |-> stream, plan |-> operations]

Target == <<HostV4, 8333>>

\* Callers that read with get_messages.
ReaderScenarios ==
    { Scenario(Target, NoProxy, <<>>, <<GetMessages(None)>>),
      Scenario(Target, NoProxy, FPing(5) \o FPing(6),
               <<GetMessages(None), GetMessages(None), GetMessages(None)>>),
      Scenario(Target, NoProxy, FPing(5) \o FPing(6),
               <<GetMessages(List(<<CmdPong>>)), GetMessages(List(<<>>))>>),
      Scenario(Target, NoProxy, FVerack \o FPing(5) \o FPong(9),
               <<GetMessages(List(<<CmdPong, CmdVerack>>)), GetMessages(None)>>),
      Scenario(Target, NoProxy, FVerack \o FPong(9) \o FPing(5),
               <<GetMessages(List(<<CmdPing>>)), GetMessages(List(<<>>))>>),
      Scenario(Target, NoProxy, FPing(5) \o BadMagic(FPong(6)),
               <<GetMessages(None)>>),
      Scenario(Target, NoProxy, FPing(5) \o BadChecksum(FPing(6)),
               <<GetMessages(None)>>),
      Scenario(Target, NoProxy, FPing(5) \o Frame(CmdPing, <<1, 2, 3>>),
               <<GetMessages(None)>>),
      Scenario(Target, NoProxy, FVerack \o FVersion(70000),
               <<GetMessages(None)>>),
      Scenario(Target, NoProxy, Frame(<<120>>, <<1, 2>>) \o FPing(5),
               <<GetMessages(None), GetMessages(None)>>) }

\* Callers that begin with handshake, as main does.
HandshakeScenarios ==
    { Scenario(Target, NoProxy, FVersion(70002) \o FVerack, <<Handshake, Getaddr>>),
      Scenario(Target, NoProxy, FVerack \o FVersion(70002),
               <<Handshake, GetMessages(None)>>),
      Scenario(Target, NoProxy, FVersion(70002) \o FPing(5) \o FVerack,
               <<Handshake, GetMessages(None)>>),
      Scenario(Target, NoProxy, FVersion(70002) \o FPing(5), <<Handshake>>),
      Scenario(Target, NoProxy, FVersion(70002), <<Handshake>>),
      Scenario(Target, NoProxy, FVerack, <<Handshake>>),
      Scenario(Target, NoProxy,
               FPing(1) \o FPing(2) \o FPing(3) \o FPing(4) \o FPing(5),
               <<Handshake>>),
      Scenario(Target, NoProxy, FVersion(70000) \o FVerack, <<Handshake>>),
      Scenario(Target, NoProxy, FVersion(70000) \o FVerack \o FPing(5),
               <<Handshake>>),
      Scenario(Target, NoProxy, FVersion(70000), <<Handshake>>) }

\* Callers that ask for addresses or for data.
RequestScenarios ==
    { Scenario(Target, NoProxy, FAddr \o FPing(5) \o FAddr,
               <<Getaddr, GetMessages(None)>>),
      Scenario(Target, NoProxy, FTx \o FPing(5), <<Getdata, GetMessages(None)>>) }

\* Other targets, with and without a proxy.
TargetScenarios ==
    { Scenario(t, prx, FVersion(70002) \o FVerack, <<Handshake>>) :
          t \in {<<HostOnion, 0>>, <<HostV6, 8333>>, <<HostV4, 0>>},
          prx \in {NoProxy, TorProxy} }

Scenarios ==
    ReaderScenarios \cup HandshakeScenarios \cup RequestScenarios
        \cup TargetScenarios

(* ------------------------------ bounds --------------------------------- *)

\* Read operations (get_messages, handshake, getaddr, getdata) in one run.
MaxCalls == 2
\* Calls of close() on a connection that has a socket, in one run.
MaxCloses == 2

(* ------------------------------- state --------------------------------- *)

VARIABLES
    to_addr,        \* Connection.to_addr: <<host, port>>
    from_addr,      \* Connection.from_addr
    proxy,          \* Connection.proxy
    socket,         \* Connection.socket: [kind, open]; kind "none" is None
    required_len,   \* Serializer.required_len
    wire,           \* the bytes the peer sends on the stream
    plan,           \* the read operations the caller makes, in order
    rpos,           \* how many of them socket.recv has returned
    netio,          \* the network operations issued, in order
    sent,           \* the frames given to socket.sendall, in order
    pc,             \* where the running operation stands; "idle" between calls
    op,             \* the running (or last) operation and its arguments
    length,         \* recv: the bytes still to read
    exact,          \* recv: whether it was called with length > 0
    resume,         \* recv: which read of get_messages it serves
    data,           \* get_messages: the buffer; while recv runs, followed by
                    \* the chunks recv has read so far
    msgs,           \* get_messages: the messages decoded
    trace,          \* the running call's decodes and sends, in order
    result,         \* how the last operation ended
    calls,          \* the read operations called, in order
    delivered,      \* the messages the read operations returned, in order
    closes          \* the calls of close() that found a socket

vars ==
    <<to_addr, from_addr, proxy, socket, required_len, wire, plan, rpos, netio, sent,
      pc, op, length, exact, resume, data, msgs, trace, result, calls,
      delivered, closes>>

connVars == <<to_addr, from_addr, proxy, plan>>
callVars == <<length, exact, resume, data, msgs>>

\* self.socket = None
NoSocket == [kind |-> "none", open |-> FALSE]

NoResult == [err |-> "", msgs |-> <<>>, status |-> "none"]
Returned(m) == [err |-> "", msgs |-> m, status |-> "return"]
Raises(e) == [err |-> e, msgs |-> <<>>, status |-> "raise"]

\* Connection.__init__: port 0 stands for the default port.
ConnectionInit(addr) == IF addr[2] = 0 THEN <<addr[1], DEFAULT_PORT>> ELSE addr

Init ==
    \E s \in Scenarios :
        /\ to_addr = ConnectionInit(s.to_addr)
        /\ from_addr = <<HostAny, 0>>
        /\ proxy = s.proxy
        /\ socket = NoSocket
        /\ required_len = 0
        /\ wire = s.wire
        /\ plan = s.plan
        /\ rpos = 0
        /\ netio = <<>>
        /\ sent = <<>>
        /\ pc = "idle"
        /\ op = [name |-> "init", commands |-> None]
        /\ length = 0
        /\ exact = FALSE
        /\ resume = "first"
        /\ data = <<>>
        /\ msgs = <<>>
        /\ trace = <<>>
        /\ result = NoResult
        /\ calls = <<>>
        /\ delivered = <<>>
        /\ closes = 0

(* ------------------------------ transport ------------------------------ *)

\* A variant of create_connection that connects directly whatever the address.
create_connection_direct(address, source_address, prx) ==
    {[err |-> "", sock |-> [kind |-> "tcp", open |-> TRUE],
      io |-> <<[io |-> "tcp_connect", via |-> source_address, to |-> address]>>]}

\* create_connection(address, timeout, source_address, proxy): the outcomes the
\* network allows, each [err, sock, io]: the exception raised, the socket
\* returned and the network operations issued.
create_connection(address, source_address, prx) ==
    IF EndsWith(address[1], DotOnion)
    THEN IF prx = NoProxy
         THEN {[err |-> "ProxyRequired", sock |-> NoSocket, io |-> <<>>]}
         ELSE LET io == <<[io |-> "socks5_connect", via |-> prx, to |-> address]>>
              IN  {[err |-> "", sock |-> [kind |-> "socks5", open |-> TRUE],
                    io |-> io],
                   [err |-> "ConnectionError", sock |-> NoSocket, io |-> io]}
    ELSE LET source ==
                 IF Contains(address[1], 58) /\ ~Contains(source_address[1], 58)
                 THEN <<>> ELSE source_address
             io == <<[io |-> "tcp_connect", via |-> source, to |-> address]>>
         IN  {[err |-> "", sock |-> [kind |-> "tcp", open |-> TRUE], io |-> io],
              [err |-> "socket.error", sock |-> NoSocket, io |-> io]}

\* Connection.open, on a connection that made no connection yet.
Open ==
    /\ pc = "idle"
    /\ socket = NoSocket
    /\ netio = <<>>
    /\ \E o \in create_connection(to_addr, from_addr, proxy) :
          /\ netio' = netio \o o.io
          /\ IF o.err = ""
             THEN socket' = o.sock /\ result' = Returned(<<>>)
             ELSE socket' = socket /\ result' = Raises(o.err)
    /\ op' = [name |-> "open", commands |-> None]
    /\ trace' = <<>>
    /\ UNCHANGED <<connVars, callVars, required_len, wire, rpos, sent, pc, calls,
                   delivered, closes>>

\* A variant of Close that lets the socket.error of shutdown out, the socket
\* left as it is.
CloseShutdownRaises ==
    /\ pc = "idle"
    /\ op' = [name |-> "close", commands |-> None]
    /\ trace' = <<>>
    /\ \/ /\ socket.kind = "none"
          /\ result' = Returned(<<>>)
          /\ UNCHANGED <<socket, netio, closes>>
       \/ /\ socket.kind # "none"
          /\ socket.open
          /\ closes < MaxCloses
          /\ closes' = closes + 1
          /\ result' = Returned(<<>>)
          /\ netio' = netio \o <<[io |-> "shutdown", via |-> <<>>, to |-> to_addr],
                                 [io |-> "close", via |-> <<>>, to |-> to_addr]>>
          /\ socket' = [socket EXCEPT !.open = FALSE]
       \/ /\ socket.kind # "none"
          /\ closes < MaxCloses
          /\ closes' = closes + 1
          /\ result' = Raises("socket.error")
          /\ netio' = Append(netio, [io |-> "shutdown_error", via |-> <<>>,
                                     to |-> to_addr])
          /\ socket' = socket
    /\ UNCHANGED <<connVars, callVars, required_len, wire, rpos, sent, pc, calls,
                   delivered>>

\* Connection.close: nothing without a socket; else shutdown, whose socket.error
\* is passed over, and close.  Shutdown of a closed socket fails.
Close ==
    /\ pc = "idle"
    /\ op' = [name |-> "close", commands |-> None]
    /\ trace' = <<>>
    /\ result' = Returned(<<>>)
    /\ \/ /\ socket.kind = "none"
          /\ UNCHANGED <<socket, netio, closes>>
       \/ /\ socket.kind # "none"
          /\ socket.open
          /\ closes < MaxCloses
          /\ closes' = closes + 1
          /\ netio' = netio \o <<[io |-> "shutdown", via |-> <<>>, to |-> to_addr],
                                 [io |-> "close", via |-> <<>>, to |-> to_addr]>>
          /\ socket' = [socket EXCEPT !.open = FALSE]
       \/ /\ socket.kind # "none"
          /\ closes < MaxCloses
          /\ closes' = closes + 1
          /\ netio' = netio \o <<[io |-> "shutdown_error", via |-> <<>>, to |-> to_addr],
                                 [io |-> "close", via |-> <<>>, to |-> to_addr]>>
          /\ socket' = [socket EXCEPT !.open = FALSE]
    /\ UNCHANGED <<connVars, callVars, required_len, wire, rpos, sent, pc, calls,
                   delivered>>

(* ------------------------------- driver -------------------------------- *)

\* msg.get('command') in commands
InCommands(msg, commands) ==
    \E i \in 1..Len(commands.list) : commands.list[i] = msg.command

\* A variant of get_messages_filter that keeps every message.
get_messages_unfiltered(ms, commands) == ms

\* The end of get_messages: the messages it returns.
get_messages_filter(ms, commands) ==
    IF Len(ms) > 0 /\ ~commands.none /\ commands.list # <<>>
    THEN SelectSeq(ms, LAMBDA m : InCommands(m, commands))
    ELSE ms

\* sorted(msgs, key=itemgetter('command'), reverse=True): a stable sort, the
\* greater command first; m goes before the first message of a lesser command.
SortInsert(acc, m) ==
    LET lesser == {i \in 1..Len(acc) : StrLess(acc[i].command, m.command)} IN
    IF lesser = {} THEN Append(acc, m)
    ELSE LET i == CHOOSE j \in lesser : \A k \in lesser : j <= k IN
         SubSeq(acc, 1, i - 1) \o <<m>> \o SubSeq(acc, i, Len(acc))

RECURSIVE SortFrom(_, _, _)
SortFrom(acc, ms, i) ==
    IF i > Len(ms) THEN acc
    ELSE Let(SortInsert(acc, ms[i]), LAMBDA list : SortFrom(list, ms, i + 1))

\* A variant of sorted_reverse that leaves the list as it is.
unsorted(ms) == ms

sorted_reverse(ms) == Let(ms, LAMBDA list : SortFrom(<<>>, list, 1))

\* A variant of OperationResult that sorts in every operation.
OperationResultSorted(name, ms) ==
    Let(ms, LAMBDA list : IF Len(list) > 0 THEN sorted_reverse(list) ELSE list)

\* What the operation makes of the messages get_messages returned.
OperationResult(name, ms) ==
    Let(ms, LAMBDA list :
        IF name = "handshake" /\ Len(list) > 0 THEN sorted_reverse(list) ELSE list)

\* A variant of PongFrame that answers with a nonce of its own.
PongFrameOwnNonce(nonce) ==
    serialize_msg(DefaultConfig, [command |-> CmdPong, nonce |-> 0], 0, 0)

\* Connection.pong(nonce): the frame it sends.
PongFrame(nonce) ==
    serialize_msg(DefaultConfig, [command |-> CmdPong, nonce |-> nonce], 0, 0)

DecodeEvent(m) == [ev |-> "decode", msg |-> m, frame |-> <<>>]
SendEvent(f) == [ev |-> "send", msg |-> [command |-> <<>>], frame |-> f]

\* The exception of an operation on a connection without an open socket.
NoStream == IF socket.kind = "none" THEN "AttributeError" ELSE "socket.error"

\* A read operation begins: it sends `frames`, then get_messages(len, commands)
\* calls recv(len).  Callers do not go on after an exception.
StartCall(name, commands, frames, len) ==
    /\ pc = "idle"
    /\ Len(calls) < Min(MaxCalls, Len(plan))
    /\ plan[Len(calls) + 1] = [name |-> name, commands |-> commands]
    /\ result.status # "raise"
    /\ op' = [name |-> name, commands |-> commands]
    /\ calls' = Append(calls, op')
    /\ data' = <<>>
    /\ msgs' = <<>>
    /\ resume' = "first"
    /\ length' = len
    /\ exact' = (len > 0)
    /\ IF socket.open
       THEN /\ sent' = sent \o frames
            /\ trace' = [i \in 1..Len(frames) |-> SendEvent(frames[i])]
            /\ pc' = "recv"
            /\ result' = NoResult
       ELSE /\ sent' = sent
            /\ trace' = <<>>
            /\ pc' = "idle"
            /\ result' = Raises(NoStream)
    /\ UNCHANGED <<connVars, socket, required_len, wire, rpos, netio, delivered,
                   closes>>

\* The allow-lists get_messages is called with.
CommandLists ==
    {None, List(<<>>), List(<<CmdPing>>), List(<<CmdPong>>),
     List(<<CmdPong, CmdVerack>>)}

CallGetMessages == \E c \in CommandLists : StartCall("get_messages", c, <<>>, 0)

CallHandshake ==
    \E ms \in TimeMs, n \in RandomBits :
        \E frame \in {serialize_msg(DefaultConfig,
                                    [command |-> CmdVersion, to_addr |-> to_addr,
                                     from_addr |-> from_addr],
                                    ms \div 1000, n)} :
            StartCall("handshake", List(<<CmdVersion, CmdVerack>>), <<frame>>, 148)

CallGetaddr ==
    \E frame \in {serialize_msg(DefaultConfig, [command |-> CmdGetaddr], 0, 0)} :
        StartCall("getaddr", List(<<CmdAddr>>), <<frame>>, 0)

\* The inventories getdata is called with.
Inventories == {<< <<1, hexlify(Rep(7, 32))>> >>}

CallGetdata ==
    \E inventory \in Inventories :
        \E frame \in {serialize_msg(DefaultConfig,
                                    [command |-> CmdGetdata,
                                     inventory |-> inventory], 0, 0)} :
            StartCall("getdata", List(<<CmdTx, CmdBlock>>), <<frame>>, 0)

\* A variant of Raise that passes over e and returns what was decoded.
RaisePassedOver(e) ==
    /\ pc' = "idle"
    /\ result' = Returned(msgs)
    /\ data' = <<>>
    /\ msgs' = <<>>

\* The running operation raises e: nothing of it is kept.
Raise(e) ==
    /\ pc' = "idle"
    /\ result' = Raises(e)
    /\ data' = <<>>
    /\ msgs' = <<>>

\* A variant of SocketRecv in which recv returns after one chunk, whatever the
\* length asked for.
SocketRecvOnce ==
    /\ pc = "recv"
    /\ \/ /\ rpos = Len(wire)
          /\ Raise("RemoteHostClosedConnection")
          /\ UNCHANGED <<rpos, length, resume, exact>>
       \/ /\ rpos = Len(wire)
          /\ Raise("socket.timeout")
          /\ UNCHANGED <<rpos, length, resume, exact>>
       \/ \E k \in 1..Min(Len(wire) - rpos, SOCKET_BUFSIZE) :
             LET chunk == SubSeq(wire, rpos + 1, rpos + k) IN
             /\ rpos' = rpos + k
             /\ data' = data \o chunk
             /\ length' = IF exact THEN length - k ELSE length
             /\ pc' = IF resume = "first" THEN "loop" ELSE "retry"
             /\ UNCHANGED <<result, msgs, resume, exact>>
    /\ UNCHANGED <<connVars, socket, required_len, wire, netio, sent, op, trace,
                   calls, delivered, closes>>

\* One socket.recv(SOCKET_BUFSIZE) of Connection.recv: the transport returns the
\* next bytes of the stream, at least one and at most SOCKET_BUFSIZE; past the
\* last byte it returns "" (the peer closed) or times out.  recv(length) with
\* length > 0 goes on until it has read length bytes or more.  The chunks recv
\* joins on its return are appended to data as they come: get_messages reads
\* data only after recv has returned.
SocketRecv ==
    /\ pc = "recv"
    /\ \/ /\ rpos = Len(wire)
          /\ Raise("RemoteHostClosedConnection")
          /\ UNCHANGED <<rpos, length, resume, exact>>
       \/ /\ rpos = Len(wire)
          /\ Raise("socket.timeout")
          /\ UNCHANGED <<rpos, length, resume, exact>>
       \/ \E k \in 1..Min(Len(wire) - rpos, SOCKET_BUFSIZE) :
             LET chunk == SubSeq(wire, rpos + 1, rpos + k) IN
             /\ rpos' = rpos + k
             /\ data' = data \o chunk
             /\ length' = IF exact THEN length - k ELSE length
             /\ IF exact /\ length - k > 0
                THEN pc' = pc
                ELSE pc' = IF resume = "first" THEN "loop" ELSE "retry"
             /\ UNCHANGED <<result, msgs, resume, exact>>
    /\ UNCHANGED <<connVars, socket, required_len, wire, netio, sent, op, trace,
                   calls, delivered, closes>>

\* A variant of Accept that takes the whole buffer for the message decoded.
AcceptWhole(r) ==
    \E m \in {[at |-> rpos - Len(data)] @@ r.msg} :
        /\ IF m.command = CmdPing
           THEN \E pong \in {PongFrame(m.nonce)} :
                    /\ sent' = Append(sent, pong)
                    /\ trace' = trace \o <<DecodeEvent(m), SendEvent(pong)>>
           ELSE /\ sent' = sent
                /\ trace' = Append(trace, DecodeEvent(m))
        /\ msgs' = Append(msgs, m)
        /\ data' = <<>>
        /\ pc' = "loop"
        /\ UNCHANGED <<result, length, exact, resume>>

\* A message was decoded: a ping is answered at once, and the message is kept.
\* The field at, the offset of the frame in the stream, is not the program's: it
\* tells the messages apart.
Accept(r) ==
    \E m \in {[at |-> rpos - Len(data)] @@ r.msg} :
        /\ IF m.command = CmdPing
           THEN \E pong \in {PongFrame(m.nonce)} :
                    /\ sent' = Append(sent, pong)
                    /\ trace' = trace \o <<DecodeEvent(m), SendEvent(pong)>>
           ELSE /\ sent' = sent
                /\ trace' = Append(trace, DecodeEvent(m))
        /\ msgs' = Append(msgs, m)
        /\ data' = r.rest
        /\ pc' = "loop"
        /\ UNCHANGED <<result, length, exact, resume>>

\* One turn of the loop of get_messages: the first deserialize_msg of the turn.
\* After PayloadTooShortError it reads required_len - len(data) bytes more.
Parse ==
    /\ pc = "loop"
    /\ Len(data) > 0
    /\ \E now_ms \in TimeMs :
          \E r \in {deserialize_msg(required_len, data, now_ms)} :
          /\ required_len' = r.required_len
          /\ IF r.err = "PayloadTooShortError"
             THEN /\ length' = r.required_len - Len(data)
                  /\ exact' = (r.required_len - Len(data) > 0)
                  /\ resume' = "retry"
                  /\ pc' = "recv"
                  /\ UNCHANGED <<data, msgs, result, sent, trace>>
             ELSE IF r.err # ""
             THEN Raise(r.err) /\ UNCHANGED <<sent, trace, length, exact, resume>>
             ELSE Accept(r)
    /\ UNCHANGED <<connVars, socket, wire, rpos, netio, op, calls, delivered, closes>>

\* The deserialize_msg of the except clause: every exception of it is raised.
Retry ==
    /\ pc = "retry"
    /\ \E now_ms \in TimeMs :
          \E r \in {deserialize_msg(required_len, data, now_ms)} :
          /\ required_len' = r.required_len
          /\ IF r.err # ""
             THEN Raise(r.err) /\ UNCHANGED <<sent, trace, length, exact, resume>>
             ELSE Accept(r)
    /\ UNCHANGED <<connVars, socket, wire, rpos, netio, op, calls, delivered, closes>>

\* The buffer is empty: get_messages filters and returns, and the operation
\* returns to its caller.
Return ==
    /\ pc = "loop"
    /\ Len(data) = 0
    /\ \E returned \in
              {OperationResult(op.name, get_messages_filter(msgs, op.commands))} :
          /\ result' = Returned(returned)
          /\ delivered' = delivered \o returned
    /\ pc' = "idle"
    /\ msgs' = <<>>
    /\ UNCHANGED <<connVars, socket, required_len, wire, rpos, netio, sent, op,
                   length, exact, resume, data, trace, calls, closes>>

Next ==
    \/ Open
    \/ Close
    \/ CallGetMessages
    \/ CallHandshake
    \/ CallGetaddr
    \/ CallGetdata
    \/ SocketRecv
    \/ Parse
    \/ Retry
    \/ Return

Spec == Init /\ [][Next]_vars

(* ------------------- the codec as a pure function ---------------------- *)
(* deserialize_msg applied once to a buffer: wire is the buffer it is      *)
(* given, data what it leaves unread, required_len the Serializer's field, *)
(* result and msgs its outcome.                                            *)

\* The payloads of the commands deserialize_msg decodes: <<command, payload>>.
KnownPayloads ==
    { <<CmdVersion,
        serialize_version_payload(PeerConfig(PROTOCOL_VERSION),
                                  <<SERVICES, HostAny, 0>>,
                                  <<SERVICES, HostAny, 0>>, 86400, 3)>>,
      <<CmdPing, serialize_ping_payload(5)>>,
      <<CmdPong, serialize_ping_payload(6)>>,
      <<CmdAddr, serialize_addr_payload(<< <<86400, 1, HostV4, 8333>> >>)>>,
      <<CmdInv, InvPayload>>,
      <<CmdTx, serialize_tx_payload(TxSample)>>,
      <<CmdBlock, BlockPayload>> }

\* Frames of a known command, header and checksum valid, whose payload is a
\* known payload cut short.
TruncatedFrames ==
    UNION { {Frame(kp[1], SubSeq(kp[2], 1, k)) : k \in 0..(Len(kp[2]) - 1)} :
            kp \in KnownPayloads }

FullFrames == {Frame(kp[1], kp[2]) : kp \in KnownPayloads}

\* The first k bytes of a frame, for every k.
Prefixes(frame) == {SubSeq(frame, 1, k) : k \in 0..Len(frame)}

CodecInputs ==
    TruncatedFrames \cup FullFrames
        \cup {f \o <<249, 190>> : f \in FullFrames}
        \cup {FVerack, FVerack \o FPing(5), Frame(<<120>>, <<1, 2>>),
              Rep(0, 23), Rep(0, 24), Rep(0, 40)}
        \cup Prefixes(FPing(5))
        \cup Prefixes(BadMagic(FPing(5)))
        \cup Prefixes(BadChecksum(FPing(5)))
        \cup {BadChecksum(f) : f \in FullFrames}

\* The values self.required_len has at the call.
RequiredLens == {0, 57}

InitCodec ==
    \E buffer \in CodecInputs, rl \in RequiredLens :
        /\ to_addr = Target
        /\ from_addr = <<HostAny, 0>>
        /\ proxy = NoProxy
        /\ socket = NoSocket
        /\ required_len = rl
        /\ wire = buffer
        /\ plan = <<>>
        /\ rpos = 0
        /\ netio = <<>>
        /\ sent = <<>>
        /\ pc = "codec"
        /\ op = [name |-> "deserialize_msg", commands |-> None]
        /\ length = 0
        /\ exact = FALSE
        /\ resume = "first"
        /\ data = buffer
        /\ msgs = <<>>
        /\ trace = <<>>
        /\ result = NoResult
        /\ calls = <<>>
        /\ delivered = <<>>
        /\ closes = 0

\* (msg, data) = deserialize_msg(data)
Decode ==
    /\ pc = "codec"
    /\ pc' = "decoded"
    /\ \E now_ms \in TimeMs :
          \E r \in {deserialize_msg(required_len, data, now_ms)} :
              /\ required_len' = r.required_len
              /\ IF r.err # ""
                 THEN /\ result' = Raises(r.err)
                      /\ UNCHANGED <<data, msgs>>
                 ELSE /\ result' = Returned(<<r.msg>>)
                      /\ data' = r.rest
                      /\ msgs' = <<r.msg>>
    /\ UNCHANGED <<connVars, socket, wire, rpos, netio, sent, op, length, exact,
                   resume, trace, calls, delivered, closes>>

NextCodec == Decode

SpecCodec == InitCodec /\ [][NextCodec]_vars

(* ---------------- serialize_msg, then deserialize_msg ------------------ *)
(* op holds the Serializer and the arguments of serialize_msg; wire is the  *)
(* frame it returns, which deserialize_msg is then given.                   *)

\* Keyword arguments of serialize_msg, command by command.
VersionKwargs ==
    { [command |-> CmdVersion, to_addr |-> t, from_addr |-> f] :
          t \in {<<HostV4, 8333>>, <<HostV6, 8333>>, <<HostOnion, 8333>>},
          f \in {<<HostAny, 0>>, <<HostLocal, 9050>>} }

PingKwargs ==
    { [command |-> c, nonce |-> n] :
          c \in {CmdPing, CmdPong}, n \in {0, 5, 256, 16777217} }

AddrKwargs ==
    { [command |-> CmdAddr, addr_list |-> l] :
          l \in { <<>>,
                  << <<86400, 1, HostV4, 8333>> >>,
                  << <<86400, 1, HostV6, 8333>>, <<86401, 0, HostOnion, 9050>> >>,
                  << <<0, 1, HostLocal, 1>>, <<86400, 1, HostV4, 65535>> >> } }

InvKwargs ==
    { [command |-> CmdInv, inventory |-> l] :
          l \in { <<>>,
                  << <<1, hexlify(Rep(7, 32))>> >>,
                  << <<1, hexlify(Rep(7, 32))>>,
                     <<2, hexlify(Rep(0, 31) \o <<171>>)>> >> } }

TxKwargs == { [command |-> CmdTx] @@ TxSample }

BlockKwargs ==
    { [command |-> CmdBlock, version |-> 2,
       prev_block_hash |-> hexlify(Rep(1, 32)),
       merkle_root |-> hexlify(Rep(2, 32)), timestamp |-> 86400,
       bits |-> 486604799, nonce |-> 42, tx_count |-> 1, tx |-> <<TxSample>>] }

\* serialize_msg(**kwargs) of the Serializer self, with the clock and the
\* random bits it reads.
SerializeCall(self, kwargs, now, nonce) ==
    [name |-> "serialize_msg", commands |-> None, self |-> self,
     kwargs |-> kwargs, now |-> now, nonce |-> nonce]

SerializeCalls ==
    { SerializeCall(self, k, 86400, n) :
          self \in {DefaultConfig, PeerConfig(70002)}, k \in VersionKwargs,
          n \in {3, 11} }
    \cup { SerializeCall(DefaultConfig, k, 86400, 3) :
               k \in PingKwargs \cup AddrKwargs \cup InvKwargs \cup TxKwargs
                     \cup BlockKwargs }

InitRoundTrip ==
    \E call \in SerializeCalls :
        /\ to_addr = Target
        /\ from_addr = <<HostAny, 0>>
        /\ proxy = NoProxy
        /\ socket = NoSocket
        /\ required_len = 0
        /\ wire = <<>>
        /\ plan = <<>>
        /\ rpos = 0
        /\ netio = <<>>
        /\ sent = <<>>
        /\ pc = "kwargs"
        /\ op = call
        /\ length = 0
        /\ exact = FALSE
        /\ resume = "first"
        /\ data = <<>>
        /\ msgs = <<>>
        /\ trace = <<>>
        /\ result = NoResult
        /\ calls = <<>>
        /\ delivered = <<>>
        /\ closes = 0

\* data = serialize_msg(**kwargs)
Serialize ==
    /\ pc = "kwargs"
    /\ pc' = "codec"
    /\ \E frame \in {serialize_msg(op.self, op.kwargs, op.now, op.nonce)} :
          /\ wire' = frame
          /\ data' = frame
    /\ UNCHANGED <<connVars, socket, required_len, rpos, netio, sent, op, length,
                   exact, resume, msgs, trace, result, calls, delivered, closes>>

NextRoundTrip ==
    \/ Serialize
    \/ Decode

SpecRoundTrip == InitRoundTrip /\ [][NextRoundTrip]_vars

(* ------------------------------ properties ----------------------------- *)

\* The messages the running (or last) operation decoded, in order.
DecodedMsgs ==
    Let(SelectSeq(trace, LAMBDA e : e.ev = "decode"), LAMBDA events :
        [i \in 1..Len(events) |-> events[i].msg])

\* The frames the running (or last) operation sent, in order.
SentFrames ==
    Let(SelectSeq(trace, LAMBDA e : e.ev = "send"), LAMBDA events :
        [i \in 1..Len(events) |-> events[i].frame])

\* The messages are in the order of their frames on the wire.
Ascending(ms) == \A i, j \in 1..Len(ms) : i < j => ms[i].at < ms[j].at

\* The frames of a stream decoded one after the other, without a transport:
\* [ok, msgs], ok when the stream is valid frames and nothing else.
RECURSIVE FramesFrom(_, _, _)
FramesFrom(stream, at, acc) ==
    IF stream = <<>> THEN [ok |-> TRUE, msgs |-> acc]
    ELSE Let(deserialize_msg(0, stream, CHOOSE t \in TimeMs : TRUE), LAMBDA r :
         IF r.err # "" THEN [ok |-> FALSE, msgs |-> acc]
         ELSE Let(Append(acc, [at |-> at] @@ r.msg), LAMBDA list :
              Let(at + Len(stream) - Len(r.rest), LAMBDA next :
                  FramesFrom(r.rest, next, list))))

Frames(stream) == FramesFrom(stream, 0, <<>>)

\* The caller only calls get_messages() without arguments.
OnlyGetMessages ==
    /\ plan # <<>>
    /\ \A i \in 1..Len(plan) : plan[i] = GetMessages(None)

\* C1: streaming reassembly.  When the peer's stream is valid frames and the
\* caller calls get_messages repeatedly, no call fails with a protocol error
\* whatever the chunks are, the messages returned so far are the first messages
\* of the stream in order, and once the stream is read and the call has
\* returned they are all of them.
C1_StreamingReassembly ==
    (OnlyGetMessages /\ wire # <<>>) =>
        \E frames \in {Frames(wire)} :
            frames.ok =>
                /\ result.err \notin ProtocolError
                /\ Len(delivered) <= Len(frames.msgs)
                /\ delivered = SubSeq(frames.msgs, 1, Len(delivered))
                /\ (pc = "idle" /\ result.status = "return" /\ rpos = Len(wire))
                       => delivered = frames.msgs

\* The pong frame that answers a ping of the given nonce, byte by byte.
PongOf(nonce) ==
    MAGIC_NUMBER \o CmdPong \o Rep(0, 8) \o <<8, 0, 0, 0>>
        \o SubSeq(sha256(sha256(PackLE(nonce, 8))), 1, 4) \o PackLE(nonce, 8)

\* C2: auto-pong.  In every operation, whatever its allow-list, the decoding of
\* a ping of nonce N is followed at once, before any other frame is decoded and
\* before the operation returns, by the sending of a pong of nonce N on the
\* connection's stream.
C2_AutoPong ==
    /\ \A i \in 1..Len(trace) :
          (trace[i].ev = "decode" /\ trace[i].msg.command = CmdPing) =>
              /\ i < Len(trace)
              /\ trace[i + 1].ev = "send"
              /\ trace[i + 1].frame = PongOf(trace[i].msg.nonce)
    /\ \E frames \in {SentFrames} :
          /\ Len(frames) <= Len(sent)
          /\ SubSeq(sent, Len(sent) - Len(frames) + 1, Len(sent)) = frames

\* A handshake has returned after decoding a ping between a version and a
\* verack, ping not being in its allow-list.
C2_Witness ==
    /\ op.name = "handshake"
    /\ pc = "idle"
    /\ result.status = "return"
    /\ \E i \in 2..(Len(trace) - 2) :
          /\ trace[i].ev = "decode" /\ trace[i].msg.command = CmdPing
          /\ trace[i - 1].ev = "decode" /\ trace[i - 1].msg.command = CmdVersion
          /\ trace[i + 2].ev = "decode" /\ trace[i + 2].msg.command = CmdVerack

\* The messages are sorted by command, the greater first, and messages of one
\* command are in the order of the wire.
SortedByCommand(ms) ==
    \A i, j \in 1..Len(ms) :
        i < j => \/ StrLess(ms[j].command, ms[i].command)
                 \/ (ms[j].command = ms[i].command /\ ms[i].at < ms[j].at)

\* C3 as stated: every read operation returns its messages in the order their
\* frames arrived on the wire.
C3_WireOrder == result.status = "return" => Ascending(result.msgs)

\* C3, amended: get_messages, getaddr and getdata return their messages in the
\* order their frames arrived on the wire; handshake returns them sorted by
\* command, version before verack, whatever order they arrived in.
C3_WireOrderButHandshake ==
    result.status = "return" =>
        IF op.name = "handshake" THEN SortedByCommand(result.msgs)
        ELSE Ascending(result.msgs)

\* A handshake has returned the version before the verack although the verack
\* arrived first.
C3_Witness ==
    /\ op.name = "handshake"
    /\ result.status = "return"
    /\ Len(result.msgs) = 2
    /\ result.msgs[1].command = CmdVersion
    /\ result.msgs[2].command = CmdVerack
    /\ result.msgs[2].at < result.msgs[1].at

\* C4: allow-list filtering.  When get_messages has returned, with a non-empty
\* list the messages returned are exactly the decoded messages whose command
\* is in the list, each once and in order; with an empty list or none, they are
\* the decoded messages.
C4_AllowList ==
    (op.name = "get_messages" /\ pc = "idle" /\ result.status = "return") =>
        \E decoded \in {DecodedMsgs} :
            IF ~op.commands.none /\ op.commands.list # <<>>
            THEN /\ \A i \in 1..Len(result.msgs) :
                       /\ \E j \in 1..Len(decoded) : decoded[j] = result.msgs[i]
                       /\ InCommands(result.msgs[i], op.commands)
                 /\ \A j \in 1..Len(decoded) :
                       InCommands(decoded[j], op.commands) =>
                           \E i \in 1..Len(result.msgs) : result.msgs[i] = decoded[j]
                 /\ Ascending(result.msgs)
            ELSE result.msgs = decoded

\* get_messages(commands=["pong", "verack"]) has returned two of the three
\* messages it decoded.
C4_Witness ==
    /\ op = GetMessages(List(<<CmdPong, CmdVerack>>))
    /\ pc = "idle"
    /\ result.status = "return"
    /\ Len(DecodedMsgs) = 3
    /\ Len(result.msgs) = 2

\* The command of the frame at the head of a byte string.
CommandOf(frame) == Strip(SubSeq(frame, 5, 16))

\* A handshake that found an open socket is running or was the last operation.
HandshakeRan == op.name = "handshake" /\ trace # <<>>

\* Handshake sent one version frame, before anything else, and besides it
\* only pongs.
SentVersionFirst ==
    /\ trace[1].ev = "send"
    /\ CommandOf(trace[1].frame) = CmdVersion
    /\ \A i \in 2..Len(trace) :
          trace[i].ev = "send" => CommandOf(trace[i].frame) = CmdPong

\* Only version and verack messages, every version before every verack.
VersionBeforeVerack(ms) ==
    /\ \A i \in 1..Len(ms) : ms[i].command \in {CmdVersion, CmdVerack}
    /\ \A i, j \in 1..Len(ms) :
          i < j => ~(ms[i].command = CmdVerack /\ ms[j].command = CmdVersion)

\* C5 as stated: handshake sends a version frame first; whatever valid frames
\* the peer sends, with both, one or neither of version and verack among them,
\* it returns normally, only version and verack messages, version first.
C5_HandshakeReturns ==
    (HandshakeRan /\ Frames(wire).ok) =>
        /\ SentVersionFirst
        /\ pc = "idle" =>
              /\ result.status = "return"
              /\ VersionBeforeVerack(result.msgs)

\* C5, amended: handshake sends a version frame first; whenever it returns, it
\* has read at least 148 bytes and returns only version and verack messages,
\* version first, be both, one or neither of them among the frames; when the
\* peer sends fewer than 148 bytes it does not return but raises
\* RemoteHostClosedConnection or socket.timeout.
C5_HandshakeOrdering ==
    HandshakeRan =>
        /\ SentVersionFirst
        /\ result.status = "return" =>
              /\ rpos >= 148
              /\ VersionBeforeVerack(result.msgs)
        /\ (pc = "idle" /\ Len(wire) < 148) =>
              /\ result.status = "raise"
              /\ result.err \in {"RemoteHostClosedConnection", "socket.timeout"}

\* A handshake has returned normally without a verack: the peer sent a version
\* and a ping.
C5_Witness ==
    /\ HandshakeRan
    /\ pc = "idle"
    /\ result.status = "return"
    /\ Len(result.msgs) = 1
    /\ result.msgs[1].command = CmdVersion
    /\ \E i \in 1..Len(trace) :
          trace[i].ev = "decode" /\ trace[i].msg.command = CmdPing


\* The peer's stream begins with a version frame whose version field is below
\* MIN_PROTOCOL_VERSION.
OldVersionFirst ==
    /\ Len(wire) >= HEADER_LEN + 4
    /\ SubSeq(wire, 1, 4) = MAGIC_NUMBER
    /\ CommandOf(wire) = CmdVersion
    /\ SignedLE(SubSeq(wire, HEADER_LEN + 1, HEADER_LEN + 4)) < 70001

\* C6 as stated: when the peer answers the handshake with a version frame of a
\* version below 70001, handshake ends with IncompatibleClientError and returns
\* no messages, however many bytes follow the version frame.
C6_IncompatibleAlways ==
    (HandshakeRan /\ OldVersionFirst /\ pc = "idle") =>
        /\ result = Raises("IncompatibleClientError")
        /\ delivered = <<>>

\* C6, amended: when the peer answers the handshake with a version frame of a
\* version below 70001, handshake never returns messages; it ends with
\* IncompatibleClientError when the peer sends at least 148 bytes, and with
\* RemoteHostClosedConnection or socket.timeout when it sends fewer.
C6_IncompatibleClient ==
    (HandshakeRan /\ OldVersionFirst) =>
        /\ result.status # "return"
        /\ delivered = <<>>
        /\ pc = "idle" =>
              IF Len(wire) >= 148
              THEN result = Raises("IncompatibleClientError")
              ELSE /\ result.status = "raise"
                   /\ result.err \in {"RemoteHostClosedConnection", "socket.timeout"}

\* A handshake has ended with IncompatibleClientError on a stream that goes on
\* after the version frame and the verack.
C6_Witness ==
    /\ HandshakeRan
    /\ OldVersionFirst
    /\ pc = "idle"
    /\ result = Raises("IncompatibleClientError")
    /\ Len(wire) > 148

\* The fields of the header at the head of the buffer, read byte by byte.
HeaderLength(buffer) == UnsignedLE(SubSeq(buffer, 17, 20))
HeaderChecksum(buffer) == SubSeq(buffer, 21, 24)
PayloadOf(buffer) == SubSeq(buffer, HEADER_LEN + 1, HEADER_LEN + HeaderLength(buffer))

\* One call of deserialize_msg on the buffer data, seen as a step.
C7_Step ==
    (pc = "codec" /\ pc' = "decoded") =>
        /\ IF Len(data) < 24
           THEN result'.err = "HeaderTooShortError"
           ELSE IF SubSeq(data, 1, 4) # <<249, 190, 180, 217>>
           THEN result'.err = "InvalidMagicNumberError"
           ELSE IF Len(data) - 24 < HeaderLength(data)
           THEN /\ result'.err = "PayloadTooShortError"
                /\ required_len' = 24 + HeaderLength(data)
           ELSE SubSeq(sha256(sha256(PayloadOf(data))), 1, 4) # HeaderChecksum(data)
                    => result'.err = "InvalidPayloadChecksum"
        /\ result'.err # "PayloadTooShortError" => required_len' = required_len

\* C7: deserialize_msg fails with HeaderTooShortError on a buffer shorter than
\* 24 bytes; else with InvalidMagicNumberError when the first 4 bytes are not
\* the magic number; else with PayloadTooShortError, setting required_len to
\* 24 + length, when fewer than length bytes follow the header; else with
\* InvalidPayloadChecksum when the checksums differ.  Every outcome but
\* PayloadTooShortError leaves required_len as it was.
C7_FailureClassification == [][C7_Step]_vars

\* deserialize_msg has failed with PayloadTooShortError on the header of a ping
\* and set required_len, which was 0 or 57, to 32.
C7_Witness ==
    /\ pc = "decoded"
    /\ result.err = "PayloadTooShortError"
    /\ CommandOf(wire) = CmdPing
    /\ required_len = 32

\* A version payload without its last byte, the relay flag.
VersionWithoutRelay ==
    \E kp \in KnownPayloads :
        /\ kp[1] = CmdVersion
        /\ wire = Frame(CmdVersion, SubSeq(kp[2], 1, Len(kp[2]) - 1))

\* C8: for a frame of a known command with a valid header and checksum whose
\* payload is cut short, deserialize_msg fails with ReadError and with nothing
\* else; only a version payload that lacks just the relay byte is decoded, with
\* relay false.
C8_MalformedPayload ==
    (pc = "decoded" /\ wire \in TruncatedFrames) =>
        \/ result.err = "ReadError"
        \/ /\ VersionWithoutRelay
           /\ result.status = "return"
           /\ msgs[1].relay = FALSE

\* The decode failures get_messages does not recover from.
Unrecovered ==
    {"HeaderTooShortError", "InvalidMagicNumberError", "InvalidPayloadChecksum",
     "IncompatibleClientError", "ReadError"}

\* One deserialize_msg of get_messages, seen as a step.
C9_Step ==
    (pc \in {"loop", "retry"} /\ Len(data) > 0) =>
        \E now_ms \in TimeMs :
            \E r \in {deserialize_msg(required_len, data, now_ms)} :
                IF r.err = "PayloadTooShortError" /\ pc = "loop"
                THEN /\ pc' = "recv"
                     /\ resume' = "retry"
                     /\ length' = r.required_len - Len(data)
                     /\ UNCHANGED <<result, msgs, data, delivered>>
                ELSE (r.err \in Unrecovered \/ r.err = "PayloadTooShortError") =>
                         /\ pc' = "idle"
                         /\ result' = Raises(r.err)
                         /\ msgs' = <<>>
                         /\ delivered' = delivered

\* C9: in get_messages a PayloadTooShortError of the first parse is recovered
\* by reading more bytes and parsing once more; HeaderTooShortError,
\* InvalidMagicNumberError, InvalidPayloadChecksum, IncompatibleClientError and
\* ReadError of the first parse or of the second end the operation with that
\* exception, and none of the messages of the call is returned.
C9_ErrorPropagation == [][C9_Step]_vars

\* The second parse of a frame has raised InvalidPayloadChecksum after a ping
\* of the same call was decoded; nothing was returned.
C9_Witness ==
    /\ op.name = "get_messages"
    /\ pc = "idle"
    /\ resume = "retry"
    /\ result = Raises("InvalidPayloadChecksum")
    /\ \E i \in 1..Len(trace) :
          trace[i].ev = "decode" /\ trace[i].msg.command = CmdPing
    /\ delivered = <<>>

\* C10: on a connection to a host ending in ".onion", without a proxy open()
\* raises ProxyRequired, no network operation is ever issued and the socket
\* stays None; with a proxy the only connection made is a SOCKS5 connection
\* through the proxy, never a direct one.
C10_OnionGate ==
    EndsWith(to_addr[1], <<46, 111, 110, 105, 111, 110>>) =>
        /\ \A i \in 1..Len(netio) : netio[i].io # "tcp_connect"
        /\ socket.kind \in {"none", "socks5"}
        /\ proxy = NoProxy =>
              /\ netio = <<>>
              /\ socket = NoSocket
              /\ op.name = "open" => result = Raises("ProxyRequired")
        /\ socket.kind = "socks5" =>
              /\ proxy # NoProxy
              /\ netio[1] = [io |-> "socks5_connect", via |-> proxy, to |-> to_addr]

\* open() has raised ProxyRequired on a connection to an onion host without a
\* proxy.
C10_Witness ==
    /\ EndsWith(to_addr[1], <<46, 111, 110, 105, 111, 110>>)
    /\ proxy = NoProxy
    /\ op.name = "open"
    /\ result = Raises("ProxyRequired")
    /\ netio = <<>>
    /\ socket = NoSocket

\* C11: exact-length read.  recv(length) with length > 0 returns exactly length
\* bytes, never more, however the transport chunks the stream: when it has
\* returned, nothing was read beyond the length asked for; the buffer of the
\* second parse holds exactly required_len bytes; and a handshake that has
\* returned has read exactly 148 bytes of the stream.  A read past the end of a
\* closed stream raises RemoteHostClosedConnection in either mode.
C11_ExactLengthRead ==
    /\ (exact /\ pc \in {"loop", "retry"}) => length = 0
    /\ pc = "retry" => Len(data) = required_len
    /\ (op.name = "handshake" /\ pc = "idle" /\ result.status = "return")
           => rpos = 148
    /\ result.err = "RemoteHostClosedConnection" => rpos = Len(wire)

\* The decoded address is the host and port given, with the services given.
SameAddress(decoded, services, host, port) ==
    /\ decoded.services = services
    /\ decoded.ipv4 \o decoded.ipv6 \o decoded.onion = host
    /\ decoded.port = port

\* The fields of m a transaction record tx gives.
SameTx(m, tx) ==
    \A f \in {"version", "tx_in_count", "tx_in", "tx_out_count", "tx_out",
              "lock_time"} :
        f \in DOMAIN m /\ m[f] = tx[f]

\* The message m has the fields serialize_msg was given in the call o.
SameFields(o, m) ==
    LET k == o.kwargs IN
    /\ m.command = k.command
    /\ CASE k.command = CmdVersion ->
              /\ m.version = o.self.protocol_version
              /\ m.services = o.self.from_services
              /\ m.timestamp = o.now
              /\ SameAddress(m.to_addr, o.self.to_services,
                             k.to_addr[1], k.to_addr[2])
              /\ SameAddress(m.from_addr, o.self.from_services,
                             k.from_addr[1], k.from_addr[2])
              /\ m.nonce = o.nonce
              /\ m.user_agent = o.self.user_agent
              /\ m.height = o.self.height
              /\ m.relay = (o.self.relay # 0)
         [] k.command \in {CmdPing, CmdPong} -> m.nonce = k.nonce
         [] k.command = CmdAddr ->
              /\ m.count = Len(k.addr_list)
              /\ Len(m.addr_list) = Len(k.addr_list)
              /\ \A i \in 1..Len(k.addr_list) :
                    /\ m.addr_list[i].timestamp = k.addr_list[i][1]
                    /\ SameAddress(m.addr_list[i], k.addr_list[i][2],
                                   k.addr_list[i][3], k.addr_list[i][4])
         [] k.command = CmdInv ->
              /\ m.count = Len(k.inventory)
              /\ Len(m.inventory) = Len(k.inventory)
              /\ \A i \in 1..Len(k.inventory) :
                    /\ m.inventory[i].type = k.inventory[i][1]
                    /\ m.inventory[i].hash = k.inventory[i][2]
         [] k.command = CmdTx -> SameTx(m, k)
         [] k.command = CmdBlock ->
              /\ \A f \in {"version", "prev_block_hash", "merkle_root",
                           "timestamp", "bits", "nonce", "tx_count"} :
                    f \in DOMAIN m /\ m[f] = k[f]
              /\ "tx" \in DOMAIN m
              /\ Len(m.tx) = Len(k.tx)
              /\ \A i \in 1..Len(k.tx) : SameTx(m.tx[i], k.tx[i])

\* C12: message round trip.  For version, ping, pong, addr, inv, tx and block,
\* deserialize_msg of the frame serialize_msg made succeeds, leaves nothing
\* unread, and returns a message with the fields serialize_msg was given (the
\* decoder's own inv timestamp, tx_hash and block_hash aside).
C12_RoundTrip ==
    (op.name = "serialize_msg" /\ pc = "decoded") =>
        /\ result.status = "return"
        /\ data = <<>>
        /\ SameFields(op, msgs[1])

\* C12, amended: for version, ping, pong, addr and inv, deserialize_msg of the
\* frame serialize_msg made succeeds, leaves nothing unread, and returns a
\* message with the fields serialize_msg was given.  For tx and block
\* serialize_msg makes a frame with an empty payload, whatever fields it is
\* given, and deserialize_msg of that frame raises.
C12_RoundTripOfPayloads ==
    (op.name = "serialize_msg" /\ pc = "decoded") =>
        IF op.kwargs.command \in {CmdTx, CmdBlock}
        THEN /\ wire = Frame(op.kwargs.command, <<>>)
             /\ result.status = "raise"
        ELSE /\ result.status = "return"
             /\ data = <<>>
             /\ SameFields(op, msgs[1])

\* An addr message of two addresses, an IPv6 one and an onion one, has made the
\* round trip.
C12_Witness ==
    /\ op.name = "serialize_msg"
    /\ op.kwargs.command = CmdAddr
    /\ pc = "decoded"
    /\ result.status = "return"
    /\ Len(msgs[1].addr_list) = 2
    /\ msgs[1].addr_list[1].ipv6 = HostV6
    /\ msgs[1].addr_list[2].onion = HostOnion
    /\ msgs[1].addr_list[2].port = 9050

\* The network operations that make a stream, and the one that releases it.
IsConnect(io) == io.io \in {"tcp_connect", "socks5_connect"}
Released == \E i \in 1..Len(netio) : netio[i].io = "close"

\* The connection holds a usable stream only after open() has succeeded and
\* until close() has released it; close() never ends with an exception.
StreamHeld ==
    /\ socket.open =>
          /\ socket.kind # "none"
          /\ netio # <<>>
          /\ IsConnect(netio[1])
          /\ ~Released
    /\ Released => (socket.kind # "none" /\ ~socket.open)
    /\ socket.kind = "none" => \A i \in 1..Len(netio) : IsConnect(netio[i])
    /\ op.name = "close" => result = Returned(<<>>)

\* One call of close(), seen as a step.
C13_Step ==
    (op'.name = "close" /\ (op.name # "close" \/ netio' # netio)) =>
        /\ result' = Returned(<<>>)
        /\ IF socket.kind = "none"
           THEN socket' = socket /\ netio' = netio
           ELSE /\ ~socket'.open
                /\ Len(netio') = Len(netio) + 2
                /\ netio'[Len(netio) + 1].io \in {"shutdown", "shutdown_error"}
                /\ netio'[Len(netio) + 2].io = "close"

\* C13: close and stream lifecycle.  close() on a connection never opened, open,
\* reset by the peer or closed already returns without an exception; when the
\* connection has a socket, close() closes it whether shutdown succeeds or
\* fails; and the connection holds a usable stream only from a successful
\* open() to the next close().
C13_CloseLifecycle == []StreamHeld /\ [][C13_Step]_vars

\* close() has returned for the second time on a connection that was opened:
\* shutdown failed on the closed socket, and the socket was closed again.
C13_Witness ==
    /\ op.name = "close"
    /\ result = Returned(<<>>)
    /\ closes = 2
    /\ socket.kind # "none"
    /\ ~socket.open
    /\ netio[Len(netio) - 1].io = "shutdown_error"
    /\ netio[Len(netio)].io = "close"

\* The read that follows a PayloadTooShortError is running.
RecoveryRead == pc = "recv" /\ resume = "retry"

\* The read after a PayloadTooShortError asks for a positive length, the bytes
\* the buffer lacks; it returns with required_len bytes or more in the buffer;
\* the second parse then does not raise PayloadTooShortError, and no operation
\* ends with it.
RecoverySuffices ==
    /\ RecoveryRead =>
          /\ exact
          /\ length > 0
          /\ Len(data) + length = required_len
    /\ pc = "retry" =>
          /\ Len(data) >= required_len
          /\ \A now_ms \in TimeMs :
                deserialize_msg(required_len, data, now_ms).err
                    # "PayloadTooShortError"
    /\ result.err # "PayloadTooShortError"

\* The read after a PayloadTooShortError, seen as a step: it goes on reading,
\* returns to the second parse, or ends the operation with the exception of a
\* stream that has no more bytes.
C14_Step ==
    RecoveryRead =>
        \/ RecoveryRead'
        \/ pc' = "retry" /\ Len(data') >= required_len
        \/ /\ pc' = "idle"
           /\ rpos = Len(wire)
           /\ result'.err \in {"RemoteHostClosedConnection", "socket.timeout"}

\* C14: one recovery read always suffices.  When the first deserialize_msg of a
\* turn of the loop raises PayloadTooShortError, recv is called with a positive
\* length and returns only with at least required_len bytes in the buffer, or
\* raises; the second parse of the frame never raises PayloadTooShortError, and
\* no PayloadTooShortError leaves get_messages.
C14_OneRecoveryRead == []RecoverySuffices /\ [][C14_Step]_vars

\* get_messages has returned messages after a recovery read: the first chunk
\* ended inside a payload.
C14_Witness ==
    /\ op.name = "get_messages"
    /\ pc = "idle"
    /\ result.status = "return"
    /\ resume = "retry"
    /\ Len(result.msgs) >= 2
    /\ rpos = Len(wire)

\* The bytes the frames of the messages take on the wire: 24 + length each.
RECURSIVE FrameBytes(_)
FrameBytes(ms) ==
    IF ms = <<>> THEN 0
    ELSE HEADER_LEN + ms[1].length + FrameBytes(Tail(ms))

\* A read operation is running.
InCall == pc \in {"recv", "loop", "retry"}

\* The offset in the stream of the first byte the running call has read: the
\* bytes read, less those in the buffer and those of the messages decoded.
Balance == rpos - Len(data) - FrameBytes(msgs)

\* Between calls there is no buffer; a read operation that has returned has
\* read, from the first byte of its first message on, the bytes of the frames
\* of the messages it decoded, and nothing else.
Conserved ==
    /\ pc = "idle" => (data = <<>> /\ msgs = <<>>)
    /\ (pc = "idle" /\ result.status = "return"
           /\ op.name \in {"get_messages", "handshake", "getaddr", "getdata"}) =>
          \E decoded \in {DecodedMsgs} :
              /\ decoded # <<>>
              /\ rpos - decoded[1].at = FrameBytes(decoded)
              /\ Len(calls) = 1 => rpos = FrameBytes(decoded)

\* One step of a read operation: a call begins with an empty buffer; while it
\* runs, every byte read is in the buffer or in the frame of a decoded message;
\* a message decoded takes the 24 + length bytes of its frame from the front
\* of the buffer and leaves the rest as it was; the call returns with nothing
\* left in the buffer; a call that raises keeps nothing.
C15_Step ==
    /\ (~InCall /\ InCall') =>
          (data' = <<>> /\ msgs' = <<>> /\ rpos' = rpos)
    /\ (InCall /\ InCall') => Balance' = Balance
    /\ (InCall /\ Len(msgs') = Len(msgs) + 1) =>
          /\ Len(data) >= HEADER_LEN + HeaderLength(data)
          /\ msgs'[Len(msgs')].length = HeaderLength(data)
          /\ data' = SubSeq(data, HEADER_LEN + HeaderLength(data) + 1, Len(data))
          /\ rpos' = rpos
    /\ (InCall /\ result'.status = "return") =>
          /\ data = <<>>
          /\ rpos' = rpos
          /\ rpos - Balance = FrameBytes(msgs)
    /\ (InCall /\ result'.status = "raise") =>
          /\ data' = <<>>
          /\ msgs' = <<>>
          /\ delivered' = delivered

\* C15: byte conservation in the read loop.  Each deserialize_msg that
\* succeeds takes exactly 24 + length bytes from the front of the buffer and
\* leaves the rest untouched, unknown commands included; no buffer is kept
\* between calls; when get_messages returns, the bytes it read in the call are
\* the sum of 24 + length over the messages it decoded, before filtering; when
\* it raises, every byte read in the call is discarded, decoded messages and
\* partial frame included.
C15_ByteConservation == []Conserved /\ [][C15_Step]_vars

\* A second get_messages has returned after decoding a ping that followed, in
\* the stream, a frame of the unknown command "x" the first call decoded.
C15_Witness ==
    /\ op.name = "get_messages"
    /\ pc = "idle"
    /\ result.status = "return"
    /\ Len(calls) = 2
    /\ Len(DecodedMsgs) = 1
    /\ DecodedMsgs[1].command = CmdPing
    /\ DecodedMsgs[1].at = 26
    /\ SubSeq(wire, 5, 16) = <<120>> \o Rep(0, 11)
    /\ rpos = 58

=============================================================================
